---------------------------- MODULE Spec2Model ----------------------------
(***************************************************************************)
(* The IRC chat relay of main.go: the conversation window (NewIRCBot,       *)
(* addToContext, buildPrompt), the PRIVMSG handler (handleMessage,          *)
(* shouldRespondToMessage, cleanMessage, getAIResponse, cleanAIResponse)    *)
(* and the line splitter (sendResponse).                                    *)
(*                                                                          *)
(* A Go string is a sequence of one-character strings.  The character       *)
(* Block abbreviates a run of BlockLen letter bytes, so that texts longer   *)
(* than the 400 bytes of sendResponse are short sequences; len() of Go is   *)
(* ByteLen.  No operation of main.go cuts a string inside a run of letters. *)
(***************************************************************************)
EXTENDS Integers, Sequences, FiniteSets, TLC

VARIABLES
    config,     \* *Config: Nick, Persona, TriggerPattern
    context,    \* bot.context, the conversation window
    pc,         \* position of the PRIVMSG callback: idle, awaiting, respond, sending
    cur,        \* the irc.Event the callback was last invoked with
    nEvents,    \* number of PRIVMSG events delivered so far
    prompt,     \* the prompt of the request in flight (before URL escaping)
    body,       \* the HTTP response body read by getAIResponse
    response,   \* the value getAIResponse returned to handleMessage
    queue,      \* what sendResponse still has to do: Privmsg and Sleep calls
    sent,       \* the connection.Privmsg and time.Sleep calls made so far, in order
    errlog,     \* the "Error getting AI response" lines logged so far
    appended    \* the arguments of the addToContext calls made so far

vars == <<config, context, pc, cur, nEvents, prompt, body, response, queue,
          sent, errlog, appended>>

-----------------------------------------------------------------------------
(* Bounds of the model *)

\* number of letter bytes the character Block stands for
BlockLen == 199
\* PRIVMSG events delivered in a behaviour of Spec
MaxEvents == 2
\* addToContext calls in a behaviour of SpecWindow
MaxAppends == 25
\* failed round trips in a behaviour of SpecWindow
MaxFailures == 3
\* characters of a reply text in SpecSegment
MaxTextLen == 7
\* tokens of an inbound text in SpecClean
MaxTokens == 3

-----------------------------------------------------------------------------
(* Strings *)

Nil == "nil"
Block == "_"

UpperCase == <<"A","B","C","D","E","F","G","H","I","J","K","L","M",
               "N","O","P","Q","R","S","T","U","V","W","X","Y","Z">>
LowerCase == <<"a","b","c","d","e","f","g","h","i","j","k","l","m",
               "n","o","p","q","r","s","t","u","v","w","x","y","z">>

\* len(s): the number of bytes of the string
RECURSIVE ByteLen(_)
ByteLen(s) ==
    IF s = <<>> THEN 0
    ELSE (IF Head(s) = Block THEN BlockLen ELSE 1) + ByteLen(Tail(s))

\* unicode.IsSpace and the class \s of regexp, on the characters of the model
IsSpace(c) == c \in {" ", "\n", "\t"}

\* the class [.!?] of the sentence regexp
IsTerminator(c) == c \in {".", "!", "?"}

ToLowerCh(c) ==
    IF \E i \in 1..26 : UpperCase[i] = c
    THEN LowerCase[CHOOSE i \in 1..26 : UpperCase[i] = c]
    ELSE c

\* strings.ToLower
ToLower(s) == [i \in 1..Len(s) |-> ToLowerCh(s[i])]

\* strings.HasPrefix
HasPrefix(s, p) == Len(s) >= Len(p) /\ SubSeq(s, 1, Len(p)) = p

\* strings.Contains
Contains(s, sub) ==
    \E i \in 1..(Len(s) + 1) :
        i + Len(sub) - 1 <= Len(s) /\ SubSeq(s, i, i + Len(sub) - 1) = sub

\* s[i:] of Go, for a 1-based i
From(s, i) == SubSeq(s, i, Len(s))

\* index of the first character at or after i that is not white space
RECURSIVE SkipSpace(_, _)
SkipSpace(s, i) ==
    IF i <= Len(s) /\ IsSpace(s[i]) THEN SkipSpace(s, i + 1) ELSE i

\* index of the first character at or after i that is no sentence terminator
RECURSIVE SkipTerminators(_, _)
SkipTerminators(s, i) ==
    IF i <= Len(s) /\ IsTerminator(s[i]) THEN SkipTerminators(s, i + 1) ELSE i

\* strings.TrimSpace
RECURSIVE TrimRight(_)
TrimRight(s) ==
    IF s # <<>> /\ IsSpace(s[Len(s)]) THEN TrimRight(SubSeq(s, 1, Len(s) - 1))
    ELSE s

TrimSpace(s) == TrimRight(From(s, SkipSpace(s, 1)))

\* strings.Fields: the maximal runs of characters that are not white space
RECURSIVE FieldsFrom(_, _, _)
FieldsFrom(s, i, word) ==
    IF i > Len(s) THEN (IF word = <<>> THEN <<>> ELSE <<word>>)
    ELSE IF IsSpace(s[i])
         THEN (IF word = <<>> THEN <<>> ELSE <<word>>) \o FieldsFrom(s, i + 1, <<>>)
         ELSE FieldsFrom(s, i + 1, Append(word, s[i]))

Fields(s) == FieldsFrom(s, 1, <<>>)

\* regexp.MustCompile(`[.!?]+\s+`).Split(s, -1): the pieces of s between the
\* leftmost non-overlapping matches; a match is a maximal run of terminators
\* followed by a maximal run of white space.  The pieces before a leading match
\* and after a trailing match are empty strings and are kept.
RECURSIVE SplitFrom(_, _, _)
SplitFrom(s, i, piece) ==
    IF i > Len(s) THEN <<piece>>
    ELSE IF IsTerminator(s[i])
              /\ SkipTerminators(s, i) <= Len(s)
              /\ IsSpace(s[SkipTerminators(s, i)])
         THEN <<piece>> \o SplitFrom(s, SkipSpace(s, SkipTerminators(s, i)), <<>>)
         ELSE SplitFrom(s, i + 1, Append(piece, s[i]))

SplitSentences(s) == SplitFrom(s, 1, <<>>)

-----------------------------------------------------------------------------
(* Configuration and the texts the environment supplies *)

\* IRC_NICK's default
SteveBot == <<"S","t","e","v","e","B","o","t">>
\* another user of the channel
Al == <<"a","l">>
\* IRC_CHANNEL's default
Lobby == <<"#","l","o","b","b","y">>
\* a persona text
PersonaText == <<"B","e"," ","k","i","n","d",".">>
\* a persona text of two lines
TwoLinePersona ==
    <<"B","e"," ","k","i","n","d",".","\n","B","e"," ","b","r","i","e","f",".">>
\* TRIGGER_PATTERN's default, (?i)(steve|^!)
DefaultPattern == "(?i)(steve|^!)"

\* config.TriggerPattern.MatchString(message), for the patterns of the model
MatchString(pattern, message) ==
    /\ pattern = DefaultPattern
    /\ \/ Contains(ToLower(message), <<"s","t","e","v","e">>)
       \/ HasPrefix(message, <<"!">>)

Configs ==
    [Nick : {SteveBot}, Persona : {<<>>, PersonaText},
     TriggerPattern : {Nil, DefaultPattern}]

\* inbound texts: no trigger; a salutation with the nick in lower case; the
\* pattern's "^!" without the nick
MessageTexts ==
    { <<"h","i"," ","a","l","l">>,
      <<"s","t","e","v","e","b","o","t",":"," ","h","i">>,
      <<"!","h","e","l","p">> }

Events == [Nick : {Al, SteveBot}, Target : {SteveBot, Lobby}, Message : MessageTexts]

\* response bodies of the generator: plain; label, tags and white space to
\* clean; white space only; longer than maxLength, with sentences
Bodies ==
    { <<"H","i",".">>,
      <<"A","s","s","i","s","t","a","n","t",":"," ","<","b",">","h","i","<","/","b",">"," "," ","\n","t","h","e","r","e">>,
      <<" ","\n">>,
      <<Block," ",Block,"."," ",Block,"a","?"," ",Block,Block,Block," ","o","k">> }

\* client.Get fails (also on the 30 s timeout); status is not 200; io.ReadAll fails
Failures == {"transport", "status", "body"}

-----------------------------------------------------------------------------
(* The conversation window *)

\* Message{Role, Content}
Message(role, content) == [Role |-> role, Content |-> content]

\* bot.context when NewIRCBot returns
NewIRCBot(cfg) ==
    IF cfg.Persona # <<>> THEN <<Message("system", cfg.Persona)>> ELSE <<>>

\* addToContext with the slice one entry too long (len-19 for len-18)
addToContext_keeps19(ctx, message) ==
    LET c == Append(ctx, message)
    IN  IF Len(c) > 19
        THEN <<c[1]>> \o SubSeq(c, Len(c) - 19 + 1, Len(c))
        ELSE c

\* addToContext as a plain sliding window that does not keep index 0
addToContext_slides(ctx, message) ==
    LET c == Append(ctx, message)
    IN  IF Len(c) > 19 THEN SubSeq(c, Len(c) - 19 + 1, Len(c)) ELSE c

\* addToContext cutting the newest entries instead of the oldest
addToContext_dropsNewest(ctx, message) ==
    LET c == Append(ctx, message)
    IN  IF Len(c) > 19 THEN SubSeq(c, 1, 19) ELSE c

\* bot.context after bot.addToContext(message), from the window ctx
addToContext(ctx, message) ==
    LET c == Append(ctx, message)
    IN  IF Len(c) > 19
        THEN <<c[1]>> \o SubSeq(c, Len(c) - 18 + 1, Len(c))
        ELSE c

RoleLabel(role) ==
    CASE role = "system" -> <<"S","y","s","t","e","m",":"," ">>
      [] role = "user" -> <<"U","s","e","r",":"," ">>
      [] role = "assistant" -> <<"A","s","s","i","s","t","a","n","t",":"," ">>
      [] OTHER -> <<>>

\* buildPrompt without a case for the system role
RECURSIVE buildPrompt_skipsSystem(_)
buildPrompt_skipsSystem(ctx) ==
    IF ctx = <<>> THEN RoleLabel("assistant")
    ELSE (IF Head(ctx).Role \in {"user", "assistant"}
          THEN RoleLabel(Head(ctx).Role) \o Head(ctx).Content \o <<"\n">>
          ELSE <<>>)
         \o buildPrompt_skipsSystem(Tail(ctx))

\* bot.buildPrompt(), on the window ctx
RECURSIVE buildPrompt(_)
buildPrompt(ctx) ==
    IF ctx = <<>> THEN RoleLabel("assistant")
    ELSE (IF Head(ctx).Role \in {"system", "user", "assistant"}
          THEN RoleLabel(Head(ctx).Role) \o Head(ctx).Content \o <<"\n">>
          ELSE <<>>)
         \o buildPrompt(Tail(ctx))

-----------------------------------------------------------------------------
(* The decisions and text transforms of the handler *)

\* shouldRespondToMessage answering true when nothing matched
shouldRespondToMessage_defaultTrue(cfg, message) ==
    IF Contains(ToLower(message), ToLower(cfg.Nick)) THEN TRUE
    ELSE IF cfg.TriggerPattern # Nil THEN MatchString(cfg.TriggerPattern, message)
    ELSE TRUE

\* shouldRespondToMessage looking for the nick without lowering the case
shouldRespondToMessage_caseSensitive(cfg, message) ==
    IF Contains(message, cfg.Nick) THEN TRUE
    ELSE IF cfg.TriggerPattern # Nil THEN MatchString(cfg.TriggerPattern, message)
    ELSE FALSE

\* bot.shouldRespondToMessage(message)
shouldRespondToMessage(cfg, message) ==
    IF Contains(ToLower(message), ToLower(cfg.Nick)) THEN TRUE
    ELSE IF cfg.TriggerPattern # Nil THEN MatchString(cfg.TriggerPattern, message)
    ELSE FALSE

\* ReplaceAllString(message, "") of (?i)<nick>[,:]\s*
RECURSIVE StripMentions(_, _, _)
StripMentions(nick, s, i) ==
    IF i > Len(s) THEN <<>>
    ELSE IF /\ i + Len(nick) <= Len(s)
            /\ ToLower(SubSeq(s, i, i + Len(nick) - 1)) = ToLower(nick)
            /\ s[i + Len(nick)] \in {",", ":"}
         THEN StripMentions(nick, s, SkipSpace(s, i + Len(nick) + 1))
         ELSE <<s[i]>> \o StripMentions(nick, s, i + 1)

\* cleanMessage without the filler for an empty result
cleanMessage_noFiller(cfg, message) ==
    TrimSpace(StripMentions(cfg.Nick, message, 1))

\* bot.cleanMessage(message)
cleanMessage(cfg, message) ==
    LET cleanMsg == TrimSpace(StripMentions(cfg.Nick, message, 1))
    IN  IF cleanMsg = <<>> THEN <<"H","e","l","l","o","!">> ELSE cleanMsg

\* the first of "Assistant: ", "Bot: ", "AI: " that starts the response is cut
TrimOnePrefix(s) ==
    LET prefixes == << <<"A","s","s","i","s","t","a","n","t",":"," ">>,
                       <<"B","o","t",":"," ">>,
                       <<"A","I",":"," ">> >>
        hits == {k \in 1..3 : HasPrefix(s, prefixes[k])}
    IN  IF hits = {} THEN s
        ELSE LET k == CHOOSE h \in hits : \A g \in hits : h <= g
             IN  From(s, Len(prefixes[k]) + 1)

\* ReplaceAllString(s, "") of <[^>]*>
RECURSIVE StripTags(_, _)
StripTags(s, i) ==
    IF i > Len(s) THEN <<>>
    ELSE IF s[i] = "<" /\ \E j \in (i + 1)..Len(s) : s[j] = ">"
         THEN StripTags(s, 1 + CHOOSE j \in (i + 1)..Len(s) :
                                  s[j] = ">" /\ \A k \in (i + 1)..(j - 1) : s[k] # ">")
         ELSE <<s[i]>> \o StripTags(s, i + 1)

\* ReplaceAllString(s, " ") of \s+
RECURSIVE CollapseSpace(_, _)
CollapseSpace(s, i) ==
    IF i > Len(s) THEN <<>>
    ELSE IF IsSpace(s[i]) THEN <<" ">> \o CollapseSpace(s, SkipSpace(s, i))
         ELSE <<s[i]>> \o CollapseSpace(s, i + 1)

\* bot.cleanAIResponse(response)
cleanAIResponse(resp) ==
    TrimSpace(CollapseSpace(StripTags(TrimOnePrefix(resp), 1), 1))

\* the Content of the user entry of getAIResponse: Sprintf("%s: %s", fromNick, message)
UserContent(fromNick, message) == fromNick \o <<":", " ">> \o message

-----------------------------------------------------------------------------
(* sendResponse *)

maxLength == 400

Privmsg(target, text) == [op |-> "Privmsg", target |-> target, text |-> text]
Sleep == [op |-> "Sleep", target |-> <<>>, text |-> <<>>]

\* currentMsg joined with the next sentence or word
Join(currentMsg, piece) ==
    (IF currentMsg # <<>> THEN currentMsg \o <<" ">> ELSE currentMsg) \o piece

\* Flush without the pause after the line
Flush_noSleep(target, currentMsg) ==
    IF currentMsg # <<>> THEN <<Privmsg(target, currentMsg)>> ELSE <<>>

\* the Privmsg and Sleep of a flush: nothing when currentMsg is empty
Flush(target, currentMsg) ==
    IF currentMsg # <<>> THEN <<Privmsg(target, currentMsg), Sleep>> ELSE <<>>

\* WordLoop forgetting the joining space in its length test
RECURSIVE WordLoop_noSeparator(_, _, _)
WordLoop_noSeparator(target, words, st) ==
    IF words = <<>> THEN st
    ELSE LET word == Head(words)
         IN  IF ByteLen(st.currentMsg) + ByteLen(word) <= maxLength
             THEN WordLoop_noSeparator(target, Tail(words),
                           [st EXCEPT !.currentMsg = Join(st.currentMsg, word)])
             ELSE WordLoop_noSeparator(target, Tail(words),
                           [currentMsg |-> word,
                            out |-> st.out \o Flush(target, st.currentMsg)])

\* the loop over the words of a sentence longer than maxLength; st is
\* [currentMsg, out]; out is the sequence of calls made so far
RECURSIVE WordLoop(_, _, _)
WordLoop(target, words, st) ==
    IF words = <<>> THEN st
    ELSE LET word == Head(words)
         IN  IF ByteLen(st.currentMsg) + ByteLen(word) + 1 <= maxLength
             THEN WordLoop(target, Tail(words),
                           [st EXCEPT !.currentMsg = Join(st.currentMsg, word)])
             ELSE WordLoop(target, Tail(words),
                           [currentMsg |-> word,
                            out |-> st.out \o Flush(target, st.currentMsg)])

\* the loop over the sentences
RECURSIVE SentenceLoop(_, _, _)
SentenceLoop(target, sentences, st) ==
    IF sentences = <<>> THEN st
    ELSE LET sentence == Head(sentences)
             flushed == st.out \o Flush(target, st.currentMsg)
         IN  IF ByteLen(st.currentMsg) + ByteLen(sentence) + 1 <= maxLength
             THEN SentenceLoop(target, Tail(sentences),
                               [st EXCEPT !.currentMsg = Join(st.currentMsg, sentence)])
             ELSE IF ByteLen(sentence) > maxLength
             THEN SentenceLoop(target, Tail(sentences),
                               WordLoop(target, Fields(sentence),
                                        [currentMsg |-> <<>>, out |-> flushed]))
             ELSE SentenceLoop(target, Tail(sentences),
                               [currentMsg |-> sentence, out |-> flushed])

\* sendResponse without the short cut for a response of at most maxLength
sendResponse_alwaysSplits(target, resp) ==
    LET st == SentenceLoop(target, SplitSentences(resp),
                           [currentMsg |-> <<>>, out |-> <<>>])
    IN  st.out \o (IF st.currentMsg # <<>>
                   THEN <<Privmsg(target, st.currentMsg)>> ELSE <<>>)

\* bot.sendResponse(target, response): the calls it makes, in order
sendResponse(target, resp) ==
    IF ByteLen(resp) <= maxLength THEN <<Privmsg(target, resp)>>
    ELSE LET st == SentenceLoop(target, SplitSentences(resp),
                                [currentMsg |-> <<>>, out |-> <<>>])
         IN  st.out \o (IF st.currentMsg # <<>>
                        THEN <<Privmsg(target, st.currentMsg)>> ELSE <<>>)

-----------------------------------------------------------------------------
(* The PRIVMSG callback *)

isPrivateMessage(cfg, e) == e.Target = cfg.Nick

\* shouldRespond without the test of lines 123-126 for the bot's own messages
shouldRespond_noSelfCheck(cfg, e) ==
    isPrivateMessage(cfg, e) \/ shouldRespondToMessage(cfg, e.Message)

\* lines 123-134 of handleMessage: does the callback go on to answer e
shouldRespond(cfg, e) ==
    /\ e.Nick # cfg.Nick
    /\ (isPrivateMessage(cfg, e) \/ shouldRespondToMessage(cfg, e.Message))

\* responseTarget without the direct-message case
responseTarget_alwaysTarget(cfg, e) == e.Target

\* responseTarget of handleMessage
responseTarget(cfg, e) == IF isPrivateMessage(cfg, e) THEN e.Nick ELSE e.Target

\* the user entry getAIResponse adds for the event e
userMessage(cfg, e) ==
    Message("user", UserContent(e.Nick, cleanMessage(cfg, e.Message)))

\* no event has been delivered yet
NoEvent == [Nick |-> <<>>, Target |-> <<>>, Message |-> <<>>]

InitBot(cfgs) ==
    /\ config \in cfgs
    /\ context = NewIRCBot(config)
    /\ pc = "idle"
    /\ cur = NoEvent
    /\ nEvents = 0
    /\ prompt = <<>>
    /\ body = <<>>
    /\ response = <<>>
    /\ queue = <<>>
    /\ sent = <<>>
    /\ errlog = <<>>
    /\ appended = <<>>

\* the PRIVMSG callback is entered for the next event only after it has
\* returned for the one before (callbacks run one after the other)
SerialDelivery == pc = "idle"

\* HandleMessage with a buildPrompt that takes the entries out of the window
\* as it writes them
HandleMessage_promptConsumes(e) ==
    /\ pc = "idle"
    /\ cur' = e
    /\ nEvents' = nEvents + 1
    /\ body' = <<>>
    /\ response' = <<>>
    /\ IF shouldRespond(config, e)
       THEN /\ context' = <<>>
            /\ appended' = Append(appended, userMessage(config, e))
            /\ prompt' = buildPrompt(addToContext(context, userMessage(config, e)))
            /\ pc' = "awaiting"
       ELSE /\ prompt' = <<>>
            /\ UNCHANGED <<context, appended, pc>>
    /\ UNCHANGED <<config, queue, sent, errlog>>

\* HandleMessage started as `go bot.handleMessage(e)`: the callback returns at
\* once and the next event is taken up while this one waits for the generator
HandleMessage_goroutine(e) ==
    /\ cur' = e
    /\ nEvents' = nEvents + 1
    /\ body' = <<>>
    /\ response' = <<>>
    /\ IF shouldRespond(config, e)
       THEN /\ context' = addToContext(context, userMessage(config, e))
            /\ appended' = Append(appended, userMessage(config, e))
            /\ prompt' = buildPrompt(context')
            /\ pc' = "awaiting"
       ELSE /\ prompt' = <<>>
            /\ UNCHANGED <<context, appended, pc>>
    /\ UNCHANGED <<config, queue, sent, errlog>>

\* handleMessage(e) up to the blocking bot.client.Get of getAIResponse
HandleMessage(e) ==
    /\ SerialDelivery
    /\ cur' = e
    /\ nEvents' = nEvents + 1
    /\ body' = <<>>
    /\ response' = <<>>
    /\ IF shouldRespond(config, e)
       THEN /\ context' = addToContext(context, userMessage(config, e))
            /\ appended' = Append(appended, userMessage(config, e))
            /\ prompt' = buildPrompt(context')
            /\ pc' = "awaiting"
       ELSE /\ prompt' = <<>>
            /\ UNCHANGED <<context, appended, pc>>
    /\ UNCHANGED <<config, queue, sent, errlog>>

\* GeneratorFails taking the user entry back out of the window
GeneratorFails_rollsBack(kind) ==
    /\ pc = "awaiting"
    /\ errlog' = Append(errlog, [ev |-> nEvents, err |-> kind])
    /\ context' = SubSeq(context, 1, Len(context) - 1)
    /\ pc' = "idle"
    /\ UNCHANGED <<config, cur, nEvents, prompt, body, response, queue,
                   sent, appended>>

\* getAIResponse returns an error; handleMessage logs it and returns
GeneratorFails(kind) ==
    /\ pc = "awaiting"
    /\ errlog' = Append(errlog, [ev |-> nEvents, err |-> kind])
    /\ pc' = "idle"
    /\ UNCHANGED <<config, context, cur, nEvents, prompt, body, response, queue,
                   sent, appended>>

\* GeneratorReplies adding the body to the window as it was received
GeneratorReplies_storesRaw(b) ==
    /\ pc = "awaiting"
    /\ body' = b
    /\ response' = cleanAIResponse(TrimSpace(b))
    /\ context' = addToContext(context, Message("assistant", TrimSpace(b)))
    /\ appended' = Append(appended, Message("assistant", TrimSpace(b)))
    /\ pc' = "respond"
    /\ UNCHANGED <<config, cur, nEvents, prompt, queue, sent, errlog>>

\* the generator answers 200 with the body b: getAIResponse cleans it, adds the
\* assistant entry and returns
GeneratorReplies(b) ==
    /\ pc = "awaiting"
    /\ body' = b
    /\ response' = cleanAIResponse(TrimSpace(b))
    /\ context' = addToContext(context, Message("assistant", response'))
    /\ appended' = Append(appended, Message("assistant", response'))
    /\ pc' = "respond"
    /\ UNCHANGED <<config, cur, nEvents, prompt, queue, sent, errlog>>

\* handleMessage calls bot.sendResponse(responseTarget, response)
CallSendResponse ==
    /\ pc = "respond"
    /\ queue' = sendResponse(responseTarget(config, cur), response)
    /\ pc' = IF queue' = <<>> THEN "idle" ELSE "sending"
    /\ UNCHANGED <<config, context, cur, nEvents, prompt, body, response, sent,
                   errlog, appended>>

\* sendResponse makes its next call, connection.Privmsg; the callback returns
\* after the last call
DoPrivmsg ==
    /\ pc = "sending"
    /\ queue # <<>>
    /\ Head(queue).op = "Privmsg"
    /\ sent' = Append(sent, [ev |-> nEvents, op |-> "Privmsg",
                             target |-> Head(queue).target, text |-> Head(queue).text])
    /\ queue' = Tail(queue)
    /\ pc' = IF queue' = <<>> THEN "idle" ELSE "sending"
    /\ UNCHANGED <<config, context, cur, nEvents, prompt, body, response, errlog,
                   appended>>

\* sendResponse makes its next call, time.Sleep
DoSleep ==
    /\ pc = "sending"
    /\ queue # <<>>
    /\ Head(queue).op = "Sleep"
    /\ sent' = Append(sent, [ev |-> nEvents, op |-> "Sleep",
                             target |-> <<>>, text |-> <<>>])
    /\ queue' = Tail(queue)
    /\ pc' = IF queue' = <<>> THEN "idle" ELSE "sending"
    /\ UNCHANGED <<config, context, cur, nEvents, prompt, body, response, errlog,
                   appended>>

-----------------------------------------------------------------------------
(* Spec: the bot with every configuration, event and generator outcome *)

Init == InitBot(Configs)

Receive == \E e \in Events : nEvents < MaxEvents /\ HandleMessage(e)

Fail == \E k \in Failures : GeneratorFails(k)

Reply == \E b \in Bodies : GeneratorReplies(b)

Next == Receive \/ Fail \/ Reply \/ CallSendResponse \/ DoPrivmsg \/ DoSleep

Spec == Init /\ [][Next]_vars

-----------------------------------------------------------------------------
(* SpecWindow: long conversations of one user, to fill the window *)

WindowConfigs ==
    [Nick : {SteveBot}, Persona : {<<>>, PersonaText, TwoLinePersona},
     TriggerPattern : {Nil}]

WindowEvent ==
    [Nick |-> Al, Target |-> Lobby,
     Message |-> <<"s","t","e","v","e","b","o","t",":"," ","h","i">>]

InitWindow == InitBot(WindowConfigs)

ReceiveWindow == Len(appended) < MaxAppends /\ HandleMessage(WindowEvent)

FailWindow == Len(errlog) < MaxFailures /\ GeneratorFails("status")

ReplyWindow == GeneratorReplies(<<"H","i",".","\n","O","k">>)

NextWindow ==
    ReceiveWindow \/ FailWindow \/ ReplyWindow \/ CallSendResponse \/ DoPrivmsg

SpecWindow == InitWindow /\ [][NextWindow]_vars

-----------------------------------------------------------------------------
(* SpecSegment: sendResponse on every reply text of a small alphabet *)

SegmentAlphabet == {Block, "a", ".", " "}

ReplyTexts ==
    UNION {[1..n -> SegmentAlphabet] : n \in 0..MaxTextLen}

InitSegment ==
    /\ config \in WindowConfigs
    /\ config.Persona = <<>>
    /\ context = NewIRCBot(config)
    /\ pc = "respond"
    /\ cur = WindowEvent
    /\ nEvents = 1
    /\ prompt = <<>>
    /\ body = <<>>
    /\ response \in ReplyTexts
    /\ queue = <<>>
    /\ sent = <<>>
    /\ errlog = <<>>
    /\ appended = <<>>

NextSegment == CallSendResponse \/ DoPrivmsg \/ DoSleep

SpecSegment == InitSegment /\ [][NextSegment]_vars

-----------------------------------------------------------------------------
(* SpecClean: cleanMessage on inbound texts made of salutations *)

Steve == <<"S","t","e","v","e">>

CleanConfigs == [Nick : {Steve, SteveBot}, Persona : {PersonaText}, TriggerPattern : {Nil}]

\* the pieces inbound texts are made of: the nick as configured and in lower
\* case, the two salutation marks, a blank and a letter
CleanTokens(cfg) == {cfg.Nick, ToLower(cfg.Nick), <<":">>, <<",">>, <<" ">>, <<"x">>}

RECURSIVE TokenTexts(_, _)
TokenTexts(tokens, n) ==
    IF n = 0 THEN {<<>>}
    ELSE LET shorter == TokenTexts(tokens, n - 1)
         IN  shorter \cup {t \o k : t \in shorter, k \in tokens}

CleanTexts(cfg) ==
    TokenTexts(CleanTokens(cfg), MaxTokens)
        \cup { <<"S","t","e","v","e",":"," ","h","e","l","l","o"," ","t","h","e","r","e">>,
               <<"S","t","e","v","e",",">> }

InitClean == InitBot(CleanConfigs)

\* one direct message from another nick: it is always answered
ReceiveClean ==
    /\ nEvents = 0
    /\ \E t \in CleanTexts(config) :
          HandleMessage([Nick |-> Al, Target |-> config.Nick, Message |-> t])

NextClean == ReceiveClean

SpecClean == InitClean /\ [][NextClean]_vars

-----------------------------------------------------------------------------
(* Properties of the conversation window, under SpecWindow *)

\* the last n entries of the sequence s, all of s when it has fewer
LastN(s, n) == SubSeq(s, (IF Len(s) > n THEN Len(s) - n + 1 ELSE 1), Len(s))

\* C1: after NewIRCBot and any sequence of addToContext calls, with or
\* without a persona, the window holds at most 19 entries.
C1_WindowAtMost19 == Len(context) <= 19

\* the window is full and entries have been evicted, with and without persona
C1_Witness == Len(context) = 19 /\ Len(appended) > 19

\* C2: with a non-empty persona, after any round trips, successful or failed,
\* index 0 of the window is the system entry with the configured persona
\* text, and no other entry has role system.
C2_PersonaPinned ==
    config.Persona # <<>> =>
        /\ Len(context) >= 1
        /\ context[1] = [Role |-> "system", Content |-> config.Persona]
        /\ \A i \in 2..Len(context) : context[i].Role # "system"

\* a persona, successful and failed round trips, and evictions
C2_Witness ==
    /\ config.Persona # <<>>
    /\ Len(appended) > 19
    /\ errlog # <<>>
    /\ \E i \in 1..Len(sent) : sent[i].op = "Privmsg"

\* C3: with a persona, after k entries were appended one at a time the window
\* is the persona entry followed by the last min(k, 18) appended entries in
\* their append order; 19 entries for k = 25.
C3_PersonaThenLast18 ==
    config.Persona # <<>> =>
        context = <<[Role |-> "system", Content |-> config.Persona]>>
                      \o LastN(appended, 18)

\* 25 entries appended to a window with a persona, 19 left
C3_Witness ==
    /\ config.Persona # <<>>
    /\ Len(appended) = 25
    /\ Len(context) = 19
    /\ appended[7] # appended[8]

\* C4: without a persona, after k entries were appended one at a time the
\* window is the min(k, 19) most recently appended entries in append order.
C4_Last19WithoutPersona ==
    config.Persona = <<>> => context = LastN(appended, 19)

-----------------------------------------------------------------------------
(* Properties of the round trip, under Spec *)

\* the user entry "<fromNick>: <cleaned message>" of the event being handled
CurUserEntry ==
    [Role |-> "user",
     Content |-> cur.Nick \o <<":", " ">> \o cleanMessage(config, cur.Message)]

\* the calls sendResponse has made for the event being handled
CurCalls ==
    LET mine == SelectSeq(sent, LAMBDA c : c.ev = nEvents)
    IN  [i \in 1..Len(mine) |->
            [op |-> mine[i].op, target |-> mine[i].target, text |-> mine[i].text]]

\* the round trip of the event being handled has failed
FailedNow == errlog # <<>> /\ errlog[Len(errlog)].ev = nEvents

\* C5: when the generator call fails, getAIResponse returns an error, the
\* user entry of that round trip stays last in the window, no assistant entry
\* is added, no line is sent for that message, and the callback has returned,
\* so that the next inbound event is processed.
C5_FailedRoundTrip ==
    FailedNow =>
        /\ errlog[Len(errlog)].err \in {"transport", "status", "body"}
        /\ response = <<>>
        /\ context # <<>>
        /\ context[Len(context)] = CurUserEntry
        /\ appended[Len(appended)] = CurUserEntry
        /\ \A i \in 1..Len(sent) : sent[i].ev # nEvents
        /\ queue = <<>>
        /\ pc = "idle"
        /\ (nEvents < MaxEvents => ENABLED Receive)

\* the first round trip failed, the second event was processed and failed too
C5_Witness ==
    /\ FailedNow
    /\ Len(errlog) = 2
    /\ errlog[1].ev = 1
    /\ nEvents = 2

\* C6: a round trip appends the user entry, serializes, calls the generator,
\* sanitizes and appends the assistant entry, in this order; when it is
\* complete the last two entries of the window are the user entry
\* "<fromNick>: <cleaned message>" and the assistant entry with the sanitized
\* reply, which is also the value returned and the text handed to sendResponse.
C6_RoundTripOrder ==
    /\ pc = "awaiting" =>
          /\ context # <<>>
          /\ context[Len(context)] = CurUserEntry
          /\ prompt = buildPrompt(context)
          /\ body = <<>>
          /\ response = <<>>
          /\ CurCalls = <<>>
    /\ pc \in {"respond", "sending"} =>
          /\ Len(context) >= 2
          /\ context[Len(context) - 1] = CurUserEntry
          /\ context[Len(context)] = [Role |-> "assistant", Content |-> response]
          /\ response = cleanAIResponse(TrimSpace(body))
    /\ pc = "sending" =>
          /\ CurCalls \o queue = sendResponse(responseTarget(config, cur), response)
          /\ ByteLen(response) <= maxLength => Head(CurCalls \o queue).text = response

\* a second round trip is complete and its reply had to be sanitized
C6_Witness ==
    /\ pc = "sending"
    /\ nEvents = 2
    /\ Len(context) >= 4
    /\ response # <<>>
    /\ response # TrimSpace(body)

\* the trigger decision of the specification: directed, or the text contains
\* the nick whatever the case, or a pattern is configured and matches
Trigger(cfg, e) ==
    \/ e.Target = cfg.Nick
    \/ Contains(ToLower(e.Message), ToLower(cfg.Nick))
    \/ (cfg.TriggerPattern # Nil /\ MatchString(cfg.TriggerPattern, e.Message))

\* C7: an inbound message whose trigger decision is false is ignored: the
\* window is unchanged, no generator call is made and no line is sent.
C7_IgnoredLeavesNoTrace ==
    [][ (nEvents' = nEvents + 1 /\ ~Trigger(config, cur')) =>
            /\ context' = context
            /\ appended' = appended
            /\ prompt' = <<>>
            /\ pc' = "idle"
            /\ queue' = queue
            /\ sent' = sent
            /\ errlog' = errlog ]_vars

\* another user's untriggering message was ignored after a conversation
C7_Witness ==
    /\ nEvents > 0
    /\ cur.Nick # config.Nick
    /\ ~Trigger(config, cur)
    /\ appended # <<>>
    /\ pc = "idle"

\* C8, as amended: for every inbound message that the bot did not send
\* itself, the callback engages exactly when the message is directed, or
\* contains the nick whatever the case, or a configured pattern matches.
C8_EngagementOfOthers ==
    [][ (nEvents' = nEvents + 1 /\ cur'.Nick # config.Nick) =>
            ((pc' = "awaiting") <=> Trigger(config, cur')) ]_vars

\* a broadcast message without the nick is engaged by the pattern alone
C8_Witness ==
    /\ nEvents > 0
    /\ pc = "awaiting"
    /\ cur.Nick # config.Nick
    /\ cur.Target # config.Nick
    /\ ~Contains(ToLower(cur.Message), ToLower(config.Nick))
    /\ config.TriggerPattern # Nil

\* C8, as stated: for every inbound message the callback engages exactly
\* when the message is directed, or contains the nick, or the pattern matches;
\* every directed message is engaged.
C8_EngagementOfAll ==
    [][ nEvents' = nEvents + 1 =>
            ((pc' = "awaiting") <=> Trigger(config, cur')) ]_vars

-----------------------------------------------------------------------------
(* Properties of sendResponse, under SpecSegment *)

\* the texts of the Privmsg calls made so far, in order
Lines ==
    LET calls == SelectSeq(sent, LAMBDA c : c.op = "Privmsg")
    IN  [i \in 1..Len(calls) |-> calls[i].text]

\* the word without the sentence terminators that end it
RECURSIVE TrimTerminators(_)
TrimTerminators(w) ==
    IF w # <<>> /\ IsTerminator(w[Len(w)])
    THEN TrimTerminators(SubSeq(w, 1, Len(w) - 1))
    ELSE w

\* the lines joined with single spaces
RECURSIVE JoinLines(_)
JoinLines(lines) ==
    IF lines = <<>> THEN <<>>
    ELSE IF Len(lines) = 1 THEN lines[1]
    ELSE lines[1] \o <<" ">> \o JoinLines(Tail(lines))

\* C9: every line sendResponse emits is at most maxLength = 400 bytes long,
\* except a line that is one single word longer than that; no word is split:
\* every word of a line is a word of the text, with or without the sentence
\* terminators that end it.
C9_LinesWithinMaxLength ==
    \A i \in 1..Len(Lines) :
        LET line == Lines[i]
            words == Fields(line)
            given == Fields(response)
        IN  /\ (ByteLen(line) <= maxLength \/ words = <<line>>)
            /\ \A k \in 1..Len(words) :
                   \E j \in 1..Len(given) :
                       words[k] \in {given[j], TrimTerminators(given[j])}

\* a reply was sent in several lines, one of them a single word longer than
\* maxLength, another one made of two words
C9_Witness ==
    /\ pc = "idle"
    /\ Len(Lines) >= 2
    /\ \E i \in 1..Len(Lines) : ByteLen(Lines[i]) > maxLength
    /\ \E i \in 1..Len(Lines) : Len(Fields(Lines[i])) = 2

\* C10: joining the emitted lines with single spaces gives back the text up
\* to the white space between words: no other character is lost, added or
\* moved.
C10_JoinReconstructs ==
    pc = "idle" => Fields(JoinLines(Lines)) = Fields(response)

\* C11: a text of at most maxLength bytes is sent as exactly one line, equal
\* to the text: it is not cut at sentence ends and its white space is kept.
C11_ShortTextOneLine ==
    (pc = "idle" /\ ByteLen(response) <= maxLength) =>
        /\ Lines = <<response>>
        /\ Len(sent) = 1

\* a short text with two sentences and a run of white space went out whole
C11_Witness ==
    /\ pc = "idle"
    /\ ByteLen(response) <= maxLength
    /\ Len(SplitSentences(response)) >= 2
    /\ Len(Fields(response)) >= 2
    /\ Len(response) > Len(JoinLines(Fields(response)))
    /\ Lines = <<response>>

\* the words of a text without the terminators that end them, in order; a
\* word made of terminators only leaves nothing
Words(text) ==
    LET ws == Fields(text)
    IN  SelectSeq([i \in 1..Len(ws) |-> TrimTerminators(ws[i])],
                  LAMBDA w : w # <<>>)

\* C13: for one reply connection.Privmsg is called once per chunk, in the
\* reading order of the text, always with the same destination, and never
\* twice in a row: a time.Sleep comes between two consecutive lines.
C13_PacedInOrder ==
    /\ \A i \in 1..Len(sent) :
           sent[i].op = "Privmsg" =>
               /\ sent[i].target = sent[1].target
               /\ i < Len(sent) => sent[i + 1].op = "Sleep"
    /\ \A i \in 1..Len(sent) :
           sent[i].op = "Sleep" => i > 1 /\ sent[i - 1].op = "Privmsg"
    /\ pc = "sending" => queue # <<>>
    /\ (pc = "sending" /\ sent # <<>> /\ sent[Len(sent)].op = "Privmsg") =>
           Head(queue).op = "Sleep"
    /\ pc = "idle" => Words(JoinLines(Lines)) = Words(response)

\* a reply went out in three lines or more
C13_Witness ==
    /\ pc = "idle"
    /\ Len(Lines) >= 3
    /\ Lines[1] # Lines[2]

\* C12: sendResponse never sends an empty line: every chunk is non-empty, and
\* for an empty reply text (a body that sanitizes to nothing) no line is sent.
C12_NoEmptyLine ==
    \A i \in 1..Len(sent) : sent[i].op = "Privmsg" => sent[i].text # <<>>

RoleCount(role) == Len(SelectSeq(appended, LAMBDA m : m.Role = role))

\* C14: round trips on the shared window do not interleave. Every user append
\* is matched by the assistant append or the failure of its own round trip
\* before any other event is taken up; while a round trip is open its user
\* entry is the last entry, the prompt is the serialization of the window as it
\* is, and the only append that can follow is its own assistant entry.
C14_RoundTripsDoNotInterleave ==
    /\ [](/\ RoleCount("user") = RoleCount("assistant") + Len(errlog)
                                   + (IF pc = "awaiting" THEN 1 ELSE 0)
          /\ pc = "awaiting" =>
                /\ appended[Len(appended)] = CurUserEntry
                /\ context[Len(context)] = CurUserEntry
                /\ prompt = buildPrompt(context))
    /\ [][pc # "idle" =>
            /\ cur' = cur
            /\ nEvents' = nEvents
            /\ prompt' = prompt
            /\ \/ appended' = appended /\ context' = context
               \/ /\ pc = "awaiting"
                  /\ pc' = "respond"
                  /\ Len(appended') = Len(appended) + 1
                  /\ SubSeq(appended', 1, Len(appended)) = appended
                  /\ appended'[Len(appended')].Role = "assistant"]_vars

\* two round trips have completed one after the other, each with its reply
C14_Witness ==
    /\ pc = "idle"
    /\ nEvents = 2
    /\ Len(appended) = 4
    /\ appended[1].Role = "user" /\ appended[2].Role = "assistant"
    /\ appended[3].Role = "user" /\ appended[4].Role = "assistant"
    /\ appended[1] # appended[3]

\* where the reply to the event being handled belongs
CurDestination == IF cur.Target = config.Nick THEN cur.Nick ELSE cur.Target

\* C15: every line of a reply goes to the sender when the inbound message was
\* sent one-to-one to the bot, and to the message's target channel otherwise;
\* the destination comes from the event being handled, not from an earlier one.
C15_ReplyDestination ==
    /\ \A i \in 1..Len(sent) :
          (sent[i].op = "Privmsg" /\ sent[i].ev = nEvents) =>
              sent[i].target = CurDestination
    /\ \A i \in 1..Len(queue) :
          queue[i].op = "Privmsg" => queue[i].target = CurDestination

\* a direct message answered to its sender, then a channel message answered
\* to the channel
C15_Witness ==
    /\ pc = "idle"
    /\ nEvents = 2
    /\ cur.Target = Lobby
    /\ \E i, j \in 1..Len(sent) :
          /\ sent[i].op = "Privmsg" /\ sent[i].ev = 1 /\ sent[i].target = Al
          /\ sent[j].op = "Privmsg" /\ sent[j].ev = 2 /\ sent[j].target = Lobby

\* the pieces of s between its line breaks, as strings.Split(s, "\n")
RECURSIVE SplitLines(_)
SplitLines(s) ==
    IF \A i \in 1..Len(s) : s[i] # "\n" THEN <<s>>
    ELSE LET i == CHOOSE k \in 1..Len(s) :
                      s[k] = "\n" /\ \A j \in 1..(k - 1) : s[j] # "\n"
         IN  <<SubSeq(s, 1, i - 1)>> \o SplitLines(SubSeq(s, i + 1, Len(s)))

\* the role whose label starts the line
LeadingRole(line) ==
    CASE HasPrefix(line, RoleLabel("system")) -> "system"
      [] HasPrefix(line, RoleLabel("user")) -> "user"
      [] HasPrefix(line, RoleLabel("assistant")) -> "assistant"
      [] OTHER -> "none"

\* the prompt of the window is one line per entry, in window order, each the
\* label of the entry's role and its content, then the cue "Assistant: "
OneLinePerEntry ==
    LET ls == SplitLines(buildPrompt(context))
    IN  /\ Len(ls) = Len(context) + 1
        /\ ls[Len(ls)] = RoleLabel("assistant")
        /\ \A i \in 1..Len(context) :
              /\ ls[i] = RoleLabel(context[i].Role) \o context[i].Content
              /\ LeadingRole(ls[i]) = context[i].Role

\* C16 as stated: for every window reachable through NewIRCBot and round
\* trips, the prompt is one labelled line per entry followed by the cue, and
\* the leading labels of the lines give back the roles of the window in order.
C16_OneLinePerEntry == OneLinePerEntry

\* C16, amended: the same, for every window whose persona text has no line
\* break.
C16_OneLinePerEntryOfOneLinePersona ==
    (\A i \in 1..Len(config.Persona) : config.Persona[i] # "\n") => OneLinePerEntry

\* a full window that starts with a one-line persona, after eviction, with
\* user and assistant entries
C16_Witness ==
    /\ config.Persona = PersonaText
    /\ Len(context) = 19
    /\ Len(appended) > 19
    /\ context[1].Role = "system"
    /\ \E i, j \in 2..19 : context[i].Role = "user" /\ context[j].Role = "assistant"
    /\ OneLinePerEntry

\* the message part of the last entry of the window, after "<nick>: "
LastMessagePart ==
    LET content == context[Len(context)].Content
    IN  SubSeq(content, Len(cur.Nick) + 3, Len(content))

\* C17: the message part of the user entry that is appended and sent to the
\* generator is never empty and has no white space around it; a text that is
\* nothing but salutations and white space gives the filler "Hello!". With the
\* nick Steve, "Steve: hello there" gives "hello there" and "Steve," the filler.
C17_CleanedNeverEmpty ==
    pc = "awaiting" =>
        LET part == LastMessagePart
            user == RoleLabel("user") \o cur.Nick \o <<":", " ">> \o part
                        \o <<"\n">> \o RoleLabel("assistant")
        IN  /\ context[Len(context)].Role = "user"
            /\ HasPrefix(context[Len(context)].Content, cur.Nick \o <<":", " ">>)
            /\ part # <<>>
            /\ ~IsSpace(part[1]) /\ ~IsSpace(part[Len(part)])
            /\ Len(prompt) >= Len(user)
            /\ SubSeq(prompt, Len(prompt) - Len(user) + 1, Len(prompt)) = user
            /\ (\A i \in 1..Len(cur.Message) : IsSpace(cur.Message[i]))
                   => part = <<"H","e","l","l","o","!">>
            /\ cur.Message \in {config.Nick \o <<",">>, ToLower(config.Nick) \o <<":", " ">>}
                   => part = <<"H","e","l","l","o","!">>
            /\ (config.Nick = Steve /\ cur.Message = Steve \o <<":"," ","h","e","l","l","o"," ","t","h","e","r","e">>)
                   => part = <<"h","e","l","l","o"," ","t","h","e","r","e">>

\* "Steve," has been received by the bot named Steve and the filler appended
C17_Witness ==
    /\ pc = "awaiting"
    /\ config.Nick = Steve
    /\ cur.Message = <<"S","t","e","v","e",",">>
    /\ LastMessagePart = <<"H","e","l","l","o","!">>

C19_PromptEndsWithOwnEntry ==
    pc = "awaiting" =>
        LET ending == <<"U","s","e","r",":"," ">> \o cur.Nick \o <<":"," ">>
                          \o cleanMessage(config, cur.Message)
                          \o <<"\n","A","s","s","i","s","t","a","n","t",":"," ">>
        IN  /\ context[Len(context)] = CurUserEntry
            /\ Len(prompt) >= Len(ending)
            /\ SubSeq(prompt, Len(prompt) - Len(ending) + 1, Len(prompt)) = ending

\* the append of the user entry has just evicted an entry
C19_Witness ==
    /\ pc = "awaiting"
    /\ Len(context) = 19
    /\ Len(appended) >= 20
    /\ context[Len(context)] = CurUserEntry
    /\ context[Len(context) - 1].Role = "assistant"

\* C20: a message sent by the bot's own nick starts no round trip, whatever
\* its target and text: the window is unchanged, no prompt is built and no
\* generator call is awaited, and nothing is sent or queued.
C20_OwnMessagesIgnored ==
    [][(nEvents' = nEvents + 1 /\ cur'.Nick = config.Nick) =>
          /\ context' = context
          /\ appended' = appended
          /\ pc' = "idle"
          /\ prompt' = <<>>
          /\ sent' = sent
          /\ queue' = queue
          /\ errlog' = errlog]_vars

\* the bot's own message, sent to the bot, with the nick in it and matching
\* the trigger pattern, has been handled and has left nothing
C20_Witness ==
    /\ nEvents = 1
    /\ pc = "idle"
    /\ cur.Nick = config.Nick
    /\ cur.Target = config.Nick
    /\ Contains(ToLower(cur.Message), ToLower(config.Nick))
    /\ config.TriggerPattern # Nil
    /\ MatchString(config.TriggerPattern, cur.Message)
    /\ context = NewIRCBot(config)
    /\ appended = <<>>
    /\ sent = <<>>

=============================================================================
